---- MODULE Spec2Model ----
(***************************************************************************)
(* Model of the job aggregation backend: the aggregator service            *)
(* (backend/src/services/jobAggregator.ts), the Job and User collections,  *)
(* the job controller's bookmark and refresh handlers and the job router.  *)
(***************************************************************************)
EXTENDS Integers, Sequences, FiniteSets, TLC

(***************************************************************************)
(* Bounds of the model.                                                    *)
(***************************************************************************)
\* longest list one fetch of a source returns (the mock lists are fixed)
MaxFetch == 2
\* jobs returned by the external APIs over one behaviour
MaxFetched == 2
\* the clock stops advancing once it has reached MaxNow days
MaxNow == 28
\* days the clock advances in one step
TickDays == 7
\* view increments over one behaviour
MaxViews == 1
\* fetches that throw in one aggregateJobs run
MaxThrows == 1
\* longest bookmarkedJobs array
MaxBookmarks == 2
\* most job ids in one bulk removal
MaxBulk == 2
\* bookmark requests name the jobs with _id 1..MaxRequestedId
MaxRequestedId == 2
\* the seconds between two looks at the force-shutdown timer
SecondsPerTick == 10
\* the milliseconds in one unit of the clock of the Handshake cache
MsPerUnit == 5000
\* most jobs in the answer to one location request of fetchLinkedInMultiple
MaxPerLocation == 2
\* most jobs in the answers to the location requests of one call
MaxLinkedInJobs == 4
\* most jobs the fetch of an overlapping run returns
MaxRaceJobs == 2
\* most calls of fetchHandshakeJobs
MaxCalls == 4
\* most advances of the clock of the Handshake cache
MaxAdvances == 4

(***************************************************************************)
(* Program constants.                                                      *)
(***************************************************************************)
\* cleanupOldJobs: twentyOneDaysAgo.setDate(getDate() - 21)
TwentyOneDays == 21

\* JobAggregatorService.services, in declaration order
\* a services array that lists careerjet before jooble
servicesCareerjetFirst ==
    <<"usajobs", "remoteok", "arbeitnow", "careerjet", "jooble">>

services == <<"usajobs", "remoteok", "arbeitnow", "jooble", "careerjet">>

\* the order in which aggregateJobs handles its sources: the services loop,
\* then the Handshake block, then the LinkedIn block
sourceOrder == services \o <<"Handshake", "LinkedIn">>

NumSources == Len(sourceOrder)

\* JobSchema.source enum
SourceEnum ==
    {"USAJOBS", "REMOTEOK", "ARBEITNOW", "CAREERJET", "JOOBLE", "UNIVERSITY",
     "HANDSHAKE", "HANDSHAKE-MOCK", "LINKEDIN", "LINKEDIN-MOCK", "MANUAL"}

\* String.prototype.toUpperCase on the strings of the model
ToUpperCase(s) ==
    CASE s = "usajobs" -> "USAJOBS"
      [] s = "remoteok" -> "REMOTEOK"
      [] s = "arbeitnow" -> "ARBEITNOW"
      [] s = "jooble" -> "JOOBLE"
      [] s = "careerjet" -> "CAREERJET"
      [] OTHER -> s

\* JavaScript's a || b on strings: the empty (or undefined) string is falsy
OrElse(a, b) == IF a = "" THEN b ELSE a

(***************************************************************************)
(* Inputs: what the external job APIs may return.                          *)
(***************************************************************************)
Ids == {"a", "b"}

Descriptions == {"", "text"}

\* a posting date as the source reports it: <<>> when it reports none
PostedDates == {<<>>, <<0>>}

\* JobApiResponse of one of the five services (the fields the model keeps)
ServiceJobs(name) ==
    [source : {name}, id : Ids, description : Descriptions,
     postedDate : PostedDates]

\* lists of at most n elements of S
ListsUpTo(S, n) == UNION {[1..k -> S] : k \in 0..n}

\* getMockUniversityJobs: five fixed postings dated "now"
MockHandshakeIds ==
    <<"mock-handshake-1", "mock-handshake-2", "mock-handshake-3",
      "mock-handshake-4", "mock-handshake-5">>

getMockUniversityJobs(today) ==
    [i \in 1..Len(MockHandshakeIds) |->
        [source |-> "HANDSHAKE-MOCK",
         sourceJobId |-> MockHandshakeIds[i],
         description |-> "text",
         postedDate |-> <<today>>]]

\* transformHandshakeJobs: source 'HANDSHAKE', description || '',
\* created_at ? new Date(created_at) : new Date()
transformHandshakeJobs(data, today) ==
    [i \in 1..Len(data) |->
        [source |-> "HANDSHAKE",
         sourceJobId |-> data[i].id,
         description |-> OrElse(data[i].description, ""),
         postedDate |->
            IF data[i].created_at = <<>> THEN <<today>> ELSE data[i].created_at]]

\* HandshakeJob records of an API response
HandshakeApiJobs == [id : Ids, description : Descriptions, created_at : PostedDates]

\* LinkedInJob records of an API response (description_text is replaced by
\* 'No description available' when empty, so every transformed job has one)
LinkedInApiJobs == [id : Ids, date_posted : PostedDates]

\* parsePostedDate: the date the string denotes, "now" when it denotes none
parsePostedDate(postedTime, today) ==
    IF postedTime = <<>> THEN <<today>> ELSE postedTime

transformLinkedInJobs(data, today) ==
    [i \in 1..Len(data) |->
        [source |-> "LINKEDIN",
         sourceJobId |-> data[i].id,
         description |-> "text",
         postedDate |-> parsePostedDate(data[i].date_posted, today)]]

MockLinkedInIds == <<"mock-linkedin-1", "mock-linkedin-2", "mock-linkedin-3">>

getMockLinkedInJobs(today) ==
    [i \in 1..Len(MockLinkedInIds) |->
        [source |-> "LINKEDIN-MOCK",
         sourceJobId |-> MockLinkedInIds[i],
         description |-> "text",
         postedDate |-> <<today>>]]

\* locationFilters of fetchLinkedInMultiple
NumLocations == 4

\* the forEach of fetchLinkedInMultiple: append the jobs whose sourceJobId
\* has not been seen
RECURSIVE AddUnseen(_, _)
AddUnseen(allJobs, transformed) ==
    IF transformed = <<>> THEN allJobs
    ELSE LET job == Head(transformed)
             seen == {allJobs[i].sourceJobId : i \in 1..Len(allJobs)}
         IN  AddUnseen(IF job.sourceJobId \in seen THEN allJobs
                       ELSE Append(allJobs, job),
                       Tail(transformed))

\* the loop over locationFilters: responses[i] is "error" when the request
\* of location i failed, else the array it returned
RECURSIVE LinkedInLoop(_, _, _)
LinkedInLoop(responses, allJobs, today) ==
    IF responses = <<>> THEN allJobs
    ELSE LET r == Head(responses)
         IN  LinkedInLoop(Tail(responses),
                          IF r.error THEN allJobs
                          ELSE AddUnseen(allJobs, transformLinkedInJobs(r.data, today)),
                          today)

\* a fetchLinkedInMultiple without the try/catch around each location: the
\* first failed request ends in the outer catch, which returns the mock list
fetchLinkedInAbortsOnError(hasKey, responses, today) ==
    IF ~hasKey THEN getMockLinkedInJobs(today)
    ELSE IF \E i \in 1..Len(responses) : responses[i].error
    THEN getMockLinkedInJobs(today)
    ELSE LinkedInLoop(responses, <<>>, today)

fetchLinkedInMultiple(hasKey, responses, today) ==
    IF ~hasKey THEN getMockLinkedInJobs(today)
    ELSE LinkedInLoop(responses, <<>>, today)

(***************************************************************************)
(* State.                                                                  *)
(***************************************************************************)
VARIABLES
    jobs,            \* the Job collection: a set of documents
    nextId,          \* the next _id the database hands out
    hasHandshakeKey, \* process.env.HANDSHAKE_API_KEY is set
    hasRapidApiKey,  \* process.env.RAPIDAPI_KEY is set
    now,             \* the clock, in days
    modifiedCount,   \* what the last cleanupOldJobs returned
    viewed,          \* view increments so far (input bound)
    pc,              \* position of the aggregateJobs run: idle, fetch, save, done
    srcIdx,          \* index in sourceOrder of the source being handled
    pending,         \* jobs of the current source not yet passed to its save
    totalSaved,      \* aggregateJobs' counter, its return value once done
    apiJobs,         \* jobs the external APIs have returned so far (input bound)
    attempted,       \* sources whose fetch was started in this run
    threw,           \* sources whose fetch threw in this run
    returned,        \* per source, the number of jobs its fetch returned
    passed,          \* per source, the number of jobs passed to its save
    written,         \* documents created or updated by this run's saves
    bookmarkedJobs,  \* per user, the bookmarkedJobs array of the User document
    response,        \* the last response of a bookmark handler
    request,         \* the HTTP request the job router is handling
    stage,           \* how far the router is with it
    routeIdx,        \* index of the route that matched, 0 when none did
    accepted,        \* authenticateToken called next() for it
    handlerRan,      \* the controller handler that ran for it
    status,          \* the status code it was answered with
    isRunning,       \* dailyJobRefreshService: a refresh is running
    manualRefreshes, \* refreshes started by POST /system/refresh, in progress
    savedJobs,       \* SavedJobsPage: the _id strings of the jobs it displays
    toast,           \* SavedJobsPage: the last toast it showed
    signal,          \* the termination signal the process received, "" if none
    timerArmed,      \* gracefulShutdown's force-shutdown timer is set
    elapsed,         \* seconds since that timer was set
    serverClosed,    \* the HTTP server has emitted 'close'
    cronRunning,     \* the cron of dailyJobRefreshService is scheduled
    shutdownLog,     \* what the close callback has done, in order
    exitCode,        \* the code the process exited with, NotExited before
    clock,           \* Date.now(), in units of MsPerUnit milliseconds
    cache,           \* handshakeAPI's module-level cache
    inFlight,        \* per caller of fetchHandshakeJobs: its `now` while its
                     \* API request is in flight, 0 otherwise
    advances,        \* clock advances so far (input bound)
    lastFetch,       \* the successful API fetch that completed last: when
                     \* its call was made, and its jobs
    lastCall,        \* what the last fetchHandshakeJobs call did on entry
    liResponses,     \* what the location requests of a fetchLinkedInMultiple
                     \* call have come back with, in request order
    liResult,        \* <<the list the call returned>>, <<>> before it returns
    runPc,           \* per overlapping run: idle, find, write, done
    runQueue,        \* per overlapping run: fetched jobs not yet saved
    runFound,        \* per overlapping run: the _id its findOne found, 0 if none
    runFetched,      \* per overlapping run: the jobs its fetch returned
    runProcessed,    \* per overlapping run: saveJob calls that have returned
    runErrors        \* per overlapping run: errors its saveJob caught

dbVars == <<jobs, nextId>>

envVars == <<hasHandshakeKey, hasRapidApiKey>>

clockVars == <<now, modifiedCount, viewed>>

aggVars ==
    <<pc, srcIdx, pending, totalSaved, apiJobs, attempted, threw, returned,
      passed, written>>

userVars == <<bookmarkedJobs, response>>

httpVars ==
    <<request, stage, routeIdx, accepted, handlerRan, status, isRunning,
      manualRefreshes>>

pageVars == <<savedJobs, toast>>

shutdownVars ==
    <<signal, timerArmed, elapsed, serverClosed, cronRunning, shutdownLog,
      exitCode>>

cacheVars == <<clock, cache, inFlight, advances, lastFetch, lastCall>>

linkedInVars == <<liResponses, liResult>>

raceVars ==
    <<runPc, runQueue, runFound, runFetched, runProcessed, runErrors>>

\* the state of the features outside the aggregator, the bookmarks and the
\* job router
otherVars == <<pageVars, shutdownVars, cacheVars, linkedInVars, raceVars>>

vars == <<dbVars, envVars, clockVars, aggVars, userVars, httpVars, otherVars>>

(***************************************************************************)
(* The Job collection (models/Job.ts).                                     *)
(***************************************************************************)
\* Job.findOne({source, sourceJobId}): the matching documents
Matching(js, source, sourceJobId) ==
    {d \in js : d.source = source /\ d.sourceJobId = sourceJobId}

\* schema validation run by Job.create: description is a required String
\* (the empty string fails a required String) and source is in the enum
Validates(jobDoc) ==
    /\ jobDoc.description # ""
    /\ jobDoc.source \in SourceEnum

\* a collection whose index on {source, sourceJobId} is not unique
IndexNotUnique(js, jobDoc) == TRUE

\* the unique index {source: 1, sourceJobId: 1}
UniqueIndexAllows(js, jobDoc) ==
    ~\E d \in js :
        d.source = jobDoc.source /\ d.sourceJobId = jobDoc.sourceJobId

\* Job.create(jobDoc): the document gets a fresh _id and the schema defaults
\* views 0 and applications 0; a validation or duplicate-key error rejects
JobCreate(js, id, jobDoc) ==
    IF Validates(jobDoc) /\ UniqueIndexAllows(js, jobDoc)
    THEN [jobs |-> js \cup
                    {[_id |-> id,
                      source |-> jobDoc.source,
                      sourceJobId |-> jobDoc.sourceJobId,
                      description |-> jobDoc.description,
                      postedDate |-> jobDoc.postedDate,
                      isActive |-> jobDoc.isActive,
                      visaSponsorship |-> jobDoc.visaSponsorship,
                      views |-> 0,
                      applications |-> 0]},
          nextId |-> id + 1,
          ok |-> TRUE]
    ELSE [jobs |-> js, nextId |-> id, ok |-> FALSE]

\* an update that replaces the document: what jobDoc does not name falls
\* back to the schema defaults
JobFindByIdAndReplace(js, id, _id, jobDoc) ==
    [jobs |-> {IF d._id = _id
               THEN [_id |-> _id,
                     source |-> jobDoc.source,
                     sourceJobId |-> jobDoc.sourceJobId,
                     description |-> jobDoc.description,
                     postedDate |-> jobDoc.postedDate,
                     isActive |-> jobDoc.isActive,
                     visaSponsorship |-> jobDoc.visaSponsorship,
                     views |-> 0,
                     applications |-> 0]
               ELSE d : d \in js},
     nextId |-> id,
     ok |-> TRUE]

\* Job.findByIdAndUpdate(_id, jobDoc): sets the fields of jobDoc on the
\* document and leaves its other fields; update validators are off by default
JobFindByIdAndUpdate(js, id, _id, jobDoc) ==
    [jobs |-> {IF d._id = _id
               THEN [d EXCEPT !.source = jobDoc.source,
                              !.sourceJobId = jobDoc.sourceJobId,
                              !.description = jobDoc.description,
                              !.postedDate = jobDoc.postedDate,
                              !.isActive = jobDoc.isActive,
                              !.visaSponsorship = jobDoc.visaSponsorship]
               ELSE d : d \in js},
     nextId |-> id,
     ok |-> TRUE]

\* a save that inserts without looking for an existing document, into a
\* collection whose unique index was not built
UpsertInsertsAlways(js, id, jobDoc) ==
    [jobs |-> js \cup
                {[_id |-> id,
                  source |-> jobDoc.source,
                  sourceJobId |-> jobDoc.sourceJobId,
                  description |-> jobDoc.description,
                  postedDate |-> jobDoc.postedDate,
                  isActive |-> jobDoc.isActive,
                  visaSponsorship |-> jobDoc.visaSponsorship,
                  views |-> 0,
                  applications |-> 0]},
     nextId |-> id + 1,
     ok |-> TRUE]

\* the tail of the three save methods: update the existing document if
\* findOne found one, else create
Upsert(js, id, jobDoc) ==
    LET existing == Matching(js, jobDoc.source, jobDoc.sourceJobId)
    IN  IF existing # {}
        THEN JobFindByIdAndUpdate(js, id, (CHOOSE d \in existing : TRUE)._id, jobDoc)
        ELSE JobCreate(js, id, jobDoc)

\* jobData.postedDate || new Date()
DateOrNow(postedDate, today) ==
    IF postedDate = <<>> THEN today ELSE postedDate[1]

\* the visaSponsorship a document has when no source set it
NoVisa == [h1b |-> FALSE, opt |-> FALSE, stemOpt |-> FALSE]

\* jobData.visaSponsorship || {h1b: false, opt: false, stemOpt: false}
VisaOrDefault(jobData) ==
    IF "visaSponsorship" \in DOMAIN jobData THEN jobData.visaSponsorship
    ELSE NoVisa

\* the jobDoc of saveJob: source upper-cased, description || '', isActive
\* true
saveJobDoc(jobData, today) ==
    [source |-> ToUpperCase(jobData.source),
     sourceJobId |-> jobData.id,
     description |-> OrElse(jobData.description, ""),
     postedDate |-> DateOrNow(jobData.postedDate, today),
     visaSponsorship |-> VisaOrDefault(jobData),
     isActive |-> TRUE]

saveJob(js, id, jobData, today) == Upsert(js, id, saveJobDoc(jobData, today))

\* saveHandshakeJob: source as the fetch set it
saveHandshakeJob(js, id, jobData, today) ==
    Upsert(js, id,
           [source |-> jobData.source,
            sourceJobId |-> jobData.sourceJobId,
            description |-> OrElse(jobData.description, ""),
            postedDate |-> DateOrNow(jobData.postedDate, today),
            visaSponsorship |-> NoVisa,
            isActive |-> TRUE])

\* saveLinkedInJob
saveLinkedInJob(js, id, jobData, today) ==
    Upsert(js, id,
           [source |-> jobData.source,
            sourceJobId |-> jobData.sourceJobId,
            description |-> OrElse(jobData.description, ""),
            postedDate |-> DateOrNow(jobData.postedDate, today),
            visaSponsorship |-> NoVisa,
            isActive |-> TRUE])

\* the save method aggregateJobs uses for the source at index i
SaveOf(i, js, id, jobData, today) ==
    IF i <= Len(services) THEN saveJob(js, id, jobData, today)
    ELSE IF sourceOrder[i] = "Handshake" THEN saveHandshakeJob(js, id, jobData, today)
    ELSE saveLinkedInJob(js, id, jobData, today)

(***************************************************************************)
(* aggregateJobs, one step at a time.                                      *)
(***************************************************************************)
Min(a, b) == IF a < b THEN a ELSE b

\* the longest list an API may still return within the input bounds
Room == Min(MaxFetch, MaxFetched - apiJobs)

ZeroPerSource == [i \in 1..NumSources |-> 0]

\* where the run continues once the try block of source i is left normally:
\* the next source, or the return statement after the last
AfterSource(i) ==
    IF i < NumSources THEN [pc |-> "fetch", srcIdx |-> i + 1]
    ELSE [pc |-> "done", srcIdx |-> i]

\* a fetch error that is not caught per source ends the run
AfterCatchAborts(i) == [pc |-> "done", srcIdx |-> i]

\* where the run continues once the catch block of source i has logged the
\* error: the same place
AfterCatch(i) == AfterSource(i)

\* aggregateJobs is called: let totalSaved = 0
StartRun ==
    /\ pc = "idle"
    /\ pc' = "fetch"
    /\ srcIdx' = 1
    /\ pending' = <<>>
    /\ totalSaved' = 0
    /\ attempted' = {}
    /\ threw' = {}
    /\ returned' = ZeroPerSource
    /\ passed' = ZeroPerSource
    /\ written' = 0
    /\ UNCHANGED <<apiJobs, dbVars, envVars, otherVars, clockVars, userVars, httpVars>>

\* the fetch of source srcIdx returned the list fetchedJobs: the save loop
\* starts, or, over an empty list, is done at once
Fetched(fetchedJobs, fromApi) ==
    /\ attempted' = attempted \cup {sourceOrder[srcIdx]}
    /\ returned' = [returned EXCEPT ![srcIdx] = Len(fetchedJobs)]
    /\ apiJobs' = apiJobs + fromApi
    /\ pending' = fetchedJobs
    /\ IF fetchedJobs = <<>>
       THEN /\ pc' = AfterSource(srcIdx).pc
            /\ srcIdx' = AfterSource(srcIdx).srcIdx
       ELSE /\ pc' = "save"
            /\ srcIdx' = srcIdx
    /\ UNCHANGED <<totalSaved, threw, passed, written>>
    /\ UNCHANGED <<dbVars, envVars, otherVars, clockVars, userVars, httpVars>>

\* service.fetchJobs(params) of one of the five services returns
FetchServiceReturns(room) ==
    /\ pc = "fetch"
    /\ srcIdx <= Len(services)
    /\ \E fetchedJobs \in ListsUpTo(ServiceJobs(services[srcIdx]), room) :
          Fetched(fetchedJobs, Len(fetchedJobs))

\* service.fetchJobs(params) throws: the catch logs the error
FetchServiceThrows ==
    /\ pc = "fetch"
    /\ srcIdx <= Len(services)
    /\ Cardinality(threw) < MaxThrows
    /\ attempted' = attempted \cup {sourceOrder[srcIdx]}
    /\ threw' = threw \cup {sourceOrder[srcIdx]}
    /\ pc' = AfterCatch(srcIdx).pc
    /\ srcIdx' = AfterCatch(srcIdx).srcIdx
    /\ UNCHANGED <<pending, totalSaved, apiJobs, returned, passed, written>>
    /\ UNCHANGED <<dbVars, envVars, otherVars, clockVars, userVars, httpVars>>

\* fetchHandshakeJobs without an API key, or with a failing API request:
\* the mock list (the function catches every error itself)
FetchHandshakeMock ==
    /\ pc = "fetch"
    /\ sourceOrder[srcIdx] = "Handshake"
    /\ Fetched(getMockUniversityJobs(now), 0)

\* fetchHandshakeJobs with an API key and an answering API
FetchHandshakeApi(room) ==
    /\ pc = "fetch"
    /\ sourceOrder[srcIdx] = "Handshake"
    /\ hasHandshakeKey
    /\ \E data \in ListsUpTo(HandshakeApiJobs, room) :
          Fetched(transformHandshakeJobs(data, now), Len(data))

\* what one location request of fetchLinkedInMultiple may come back with
LinkedInResponses(n) ==
    {[error |-> TRUE, data |-> <<>>]} \cup
    {[error |-> FALSE, data |-> d] : d \in ListsUpTo(LinkedInApiJobs, n)}

RECURSIVE TotalData(_)
TotalData(responses) ==
    IF responses = <<>> THEN 0
    ELSE Len(Head(responses).data) + TotalData(Tail(responses))

\* fetchLinkedInMultiple without a key: the mock list
FetchLinkedInMock ==
    /\ pc = "fetch"
    /\ sourceOrder[srcIdx] = "LinkedIn"
    /\ ~hasRapidApiKey
    /\ Fetched(fetchLinkedInMultiple(hasRapidApiKey, <<>>, now), 0)

\* fetchLinkedInMultiple with a key: one request per location (the function
\* catches every error itself)
FetchLinkedInApi(room) ==
    /\ pc = "fetch"
    /\ sourceOrder[srcIdx] = "LinkedIn"
    /\ hasRapidApiKey
    /\ \E responses \in [1..NumLocations -> LinkedInResponses(Min(1, room))] :
          /\ TotalData(responses) <= room
          /\ Fetched(fetchLinkedInMultiple(hasRapidApiKey, responses, now),
                     TotalData(responses))

\* one iteration of a save loop: await save(job); totalSaved++
SaveStep ==
    /\ pc = "save"
    /\ pending # <<>>
    /\ LET r == SaveOf(srcIdx, jobs, nextId, Head(pending), now)
       IN  /\ jobs' = r.jobs
           /\ nextId' = r.nextId
           /\ written' = written + (IF r.ok THEN 1 ELSE 0)
    /\ totalSaved' = totalSaved + 1
    /\ passed' = [passed EXCEPT ![srcIdx] = @ + 1]
    /\ pending' = Tail(pending)
    /\ IF Tail(pending) = <<>>
       THEN /\ pc' = AfterSource(srcIdx).pc
            /\ srcIdx' = AfterSource(srcIdx).srcIdx
       ELSE /\ pc' = "save"
            /\ srcIdx' = srcIdx
    /\ UNCHANGED <<apiJobs, attempted, threw, returned>>
    /\ UNCHANGED <<envVars, otherVars, clockVars, userVars, httpVars>>

\* return totalSaved: the call is over and its locals are gone
Return ==
    /\ pc = "done"
    /\ pc' = "idle"
    /\ srcIdx' = 1
    /\ pending' = <<>>
    /\ totalSaved' = 0
    /\ attempted' = {}
    /\ threw' = {}
    /\ returned' = ZeroPerSource
    /\ passed' = ZeroPerSource
    /\ written' = 0
    /\ UNCHANGED <<apiJobs, dbVars, envVars, otherVars, clockVars, userVars, httpVars>>

(***************************************************************************)
(* cleanupOldJobs, the view counter and the clock.                         *)
(***************************************************************************)
\* a filter that also takes the jobs posted exactly twenty-one days ago
IsOldInclusive(d, today) == d.postedDate <= today - TwentyOneDays /\ d.isActive

\* the filter of the updateMany: postedDate < twentyOneDaysAgo, isActive
IsOld(d, today) == d.postedDate < today - TwentyOneDays /\ d.isActive

\* cleanupOldJobs: Job.updateMany(filter, {isActive: false}); returns
\* result.modifiedCount
cleanupOldJobs ==
    /\ jobs' = {IF IsOld(d, now) THEN [d EXCEPT !.isActive = FALSE] ELSE d :
                   d \in jobs}
    /\ modifiedCount' = Cardinality({d \in jobs : IsOld(d, now)})
    /\ UNCHANGED <<nextId, now, viewed, envVars, otherVars, aggVars, userVars, httpVars>>

\* JobSchema.methods.incrementViews: this.views += 1; save
incrementViews ==
    /\ viewed < MaxViews
    /\ \E d \in jobs :
          /\ Validates(d)
          /\ jobs' = (jobs \ {d}) \cup {[d EXCEPT !.views = @ + 1]}
    /\ viewed' = viewed + 1
    /\ UNCHANGED <<nextId, now, modifiedCount, envVars, otherVars, aggVars, userVars,
                   httpVars>>

\* time passes
Tick ==
    /\ now < MaxNow
    /\ now' = now + TickDays
    /\ UNCHANGED <<modifiedCount, viewed, dbVars, envVars, otherVars, aggVars, userVars,
                   httpVars>>

(***************************************************************************)
(* Bookmarks (controllers/jobController.ts, models/User.ts).               *)
(***************************************************************************)
Users == {"u1", "u2"}

\* req.user?.userId: a user, "" when the request carries none, or the id of
\* a user whose document no longer exists
RequestUserIds == Users \cup {"", "gone"}

\* req.params.id and the elements of req.body.jobIds: the hex digits of the
\* ObjectId hex, written in lower or in upper case; hex 0 stands for a
\* string that is no ObjectId
JobIdStrings ==
    [hex : 1..MaxRequestedId, upper : BOOLEAN] \cup {[hex |-> 0, upper |-> FALSE]}

IsObjectIdString(str) == str.hex # 0

\* new mongoose.Types.ObjectId(str), and the cast findById applies: hex
\* digits are read in either case
ObjectId(str) == str.hex

\* ObjectId.prototype.toString: the lower-case hex string
ObjectIdToString(oid) == [hex |-> oid, upper |-> FALSE]

\* Job.findById
JobFindById(js, oid) == {d \in js : d._id = oid}

\* user.bookmarkedJobs.findIndex((id) => id.toString() === jobId); 0 for -1
FindIndex(list, jobId) ==
    IF \E i \in 1..Len(list) : ObjectIdToString(list[i]) = jobId
    THEN CHOOSE i \in 1..Len(list) :
            /\ ObjectIdToString(list[i]) = jobId
            /\ \A k \in 1..(i - 1) : ObjectIdToString(list[k]) # jobId
    ELSE 0

\* list.splice(i, 1)
Splice(list, i) == SubSeq(list, 1, i - 1) \o SubSeq(list, i + 1, Len(list))

\* the toggle of bookmarkJob: splice when findIndex found the id, else push
Toggle(list, jobId) ==
    LET bookmarkIndex == FindIndex(list, jobId)
    IN  IF bookmarkIndex > 0
        THEN [list |-> Splice(list, bookmarkIndex), action |-> "removed"]
        ELSE [list |-> Append(list, ObjectId(jobId)), action |-> "added"]

NoData == [bookmarked |-> FALSE, totalBookmarks |-> 0, removedCount |-> 0]

\* a response: the handler that sent it, the req.user?.userId of the request
\* it answers, the status code and the data of the body
Respond(handler, userId, code, data) ==
    [handler |-> handler, to |-> userId, status |-> code,
     bookmarked |-> data.bookmarked,
     totalBookmarks |-> data.totalBookmarks, removedCount |-> data.removedCount]

\* POST /api/jobs/:id/bookmark
bookmarkJob(userId, jobId) ==
    /\ IF userId = ""
       THEN /\ response' = Respond("bookmarkJob", userId, 401, NoData)
            /\ UNCHANGED bookmarkedJobs
       ELSE IF ~IsObjectIdString(jobId)
       THEN \* findById rejects with a CastError: the catch answers 500
            /\ response' = Respond("bookmarkJob", userId, 500, NoData)
            /\ UNCHANGED bookmarkedJobs
       ELSE IF JobFindById(jobs, ObjectId(jobId)) = {}
       THEN /\ response' = Respond("bookmarkJob", userId, 404, NoData)
            /\ UNCHANGED bookmarkedJobs
       ELSE IF userId \notin Users
       THEN /\ response' = Respond("bookmarkJob", userId, 404, NoData)
            /\ UNCHANGED bookmarkedJobs
       ELSE LET t == Toggle(bookmarkedJobs[userId], jobId)
            IN  /\ Len(t.list) <= MaxBookmarks
                /\ bookmarkedJobs' = [bookmarkedJobs EXCEPT ![userId] = t.list]
                /\ response' =
                      Respond("bookmarkJob", userId, 200,
                              [bookmarked |-> t.action = "added",
                               totalBookmarks |-> Len(t.list),
                               removedCount |-> 0])
    /\ UNCHANGED <<dbVars, envVars, otherVars, clockVars, aggVars, httpVars>>

\* a bulk removal that pulls the ids from the lists of all users
bulkRemoveFromAllUsers(userId, jobIds) ==
    /\ IF userId = ""
       THEN /\ response' = Respond("bulkRemoveSavedJobs", userId, 401, NoData)
            /\ UNCHANGED bookmarkedJobs
       ELSE IF jobIds = {}
       THEN /\ response' = Respond("bulkRemoveSavedJobs", userId, 400, NoData)
            /\ UNCHANGED bookmarkedJobs
       ELSE IF userId \notin Users
       THEN /\ response' = Respond("bulkRemoveSavedJobs", userId, 404, NoData)
            /\ UNCHANGED bookmarkedJobs
       ELSE LET Kept(u) ==
                    SelectSeq(bookmarkedJobs[u],
                              LAMBDA id : ObjectIdToString(id) \notin jobIds)
            IN  /\ bookmarkedJobs' = [u \in Users |-> Kept(u)]
                /\ response' =
                      Respond("bulkRemoveSavedJobs", userId, 200,
                              [bookmarked |-> FALSE,
                               totalBookmarks |-> Len(Kept(userId)),
                               removedCount |->
                                  Len(bookmarkedJobs[userId]) - Len(Kept(userId))])
    /\ UNCHANGED <<dbVars, envVars, otherVars, clockVars, aggVars, httpVars>>

\* user.bookmarkedJobs.filter((id) => !jobIds.includes(id.toString()))
FilterOut(list, jobIds) ==
    SelectSeq(list, LAMBDA id : ObjectIdToString(id) \notin jobIds)

\* POST /api/jobs/saved/bulk-remove; jobIds is the set of the strings of
\* req.body.jobIds
bulkRemoveSavedJobs(userId, jobIds) ==
    /\ IF userId = ""
       THEN /\ response' = Respond("bulkRemoveSavedJobs", userId, 401, NoData)
            /\ UNCHANGED bookmarkedJobs
       ELSE IF jobIds = {}
       THEN /\ response' = Respond("bulkRemoveSavedJobs", userId, 400, NoData)
            /\ UNCHANGED bookmarkedJobs
       ELSE IF userId \notin Users
       THEN /\ response' = Respond("bulkRemoveSavedJobs", userId, 404, NoData)
            /\ UNCHANGED bookmarkedJobs
       ELSE LET kept == FilterOut(bookmarkedJobs[userId], jobIds)
            IN  /\ bookmarkedJobs' = [bookmarkedJobs EXCEPT ![userId] = kept]
                /\ response' =
                      Respond("bulkRemoveSavedJobs", userId, 200,
                              [bookmarked |-> FALSE,
                               totalBookmarks |-> Len(kept),
                               removedCount |->
                                  Len(bookmarkedJobs[userId]) - Len(kept)])
    /\ UNCHANGED <<dbVars, envVars, otherVars, clockVars, aggVars, httpVars>>

BookmarkRequest == \E userId \in RequestUserIds, jobId \in JobIdStrings :
    bookmarkJob(userId, jobId)

\* the arrays of job ids a bulk removal may carry
JobIdArrays == {S \in SUBSET JobIdStrings : Cardinality(S) <= MaxBulk}

BulkRemoveRequest == \E userId \in RequestUserIds, jobIds \in JobIdArrays :
    bulkRemoveSavedJobs(userId, jobIds)

(***************************************************************************)
(* The job router (routes/jobRoutes.ts) and the refresh endpoint.          *)
(***************************************************************************)
Route(method, path, access, middleware, handler) ==
    [method |-> method, path |-> path, access |-> access,
     middleware |-> middleware, handler |-> handler]

\* the routes under "SPECIFIC ROUTES FIRST", in registration order; access
\* is the route's @access comment, middleware what is registered before the
\* controller handler
SpecificRoutes ==
    << Route("GET", <<"search">>, "Public", <<>>, "searchJobs"),
       Route("GET", <<"bookmarked", "list">>, "Private",
             <<"authenticateToken">>, "getBookmarkedJobs"),
       Route("GET", <<"system", "refresh-stats">>, "Public", <<>>,
             "getRefreshStats"),
       Route("GET", <<"system", "cleanup-stats">>, "Public", <<>>,
             "getCleanupStats"),
       Route("GET", <<"stats">>, "Public", <<>>, "getJobStats"),
       Route("POST", <<"system", "refresh">>, "Private",
             <<"authenticateToken">>, "triggerManualRefresh"),
       Route("POST", <<"system", "cleanup">>, "Private",
             <<"authenticateToken">>, "triggerCleanup"),
       Route("POST", <<"aggregate">>, "Private",
             <<"authenticateToken">>, "triggerJobAggregation"),
       Route("GET", <<"university">>, "Public", <<>>, "getUniversityJobs"),
       Route("GET", <<"recommendations", "personalized">>, "Private",
             <<"authenticateToken">>, "getPersonalizedRecommendations"),
       Route("GET", <<"recommendations", "daily">>, "Private",
             <<"authenticateToken">>, "getDailyRecommendations"),
       Route("GET", <<"saved", "organized">>, "Private",
             <<"authenticateToken">>, "getOrganizedSavedJobs"),
       Route("GET", <<"saved", "analytics">>, "Private",
             <<"authenticateToken">>, "getSavedJobsAnalytics"),
       Route("POST", <<"saved", "bulk-remove">>, "Private",
             <<"authenticateToken">>, "bulkRemoveSavedJobs") >>

\* the routes under "PARAMETERIZED ROUTES (MUST COME LAST)"
ParameterizedRoutes ==
    << Route("GET", <<":id">>, "Public", <<>>, "getJobById"),
       Route("POST", <<":id", "bookmark">>, "Private",
             <<"authenticateToken">>, "bookmarkJob"),
       Route("POST", <<":id", "analyze-visa">>, "Public", <<>>,
             "analyzeJobVisa"),
       Route("GET", <<":id", "match-score">>, "Private",
             <<"authenticateToken">>, "getJobMatchScore"),
       Route("GET", <<":id", "match-breakdown">>, "Private",
             <<"authenticateToken">>, "getJobMatchBreakdown"),
       Route("GET", <<":id", "similar">>, "Public", <<>>, "getSimilarJobs") >>

\* a router that registers the parameterized routes first
RoutesParameterizedFirst == ParameterizedRoutes \o SpecificRoutes

\* a router that registers POST /aggregate without authenticateToken
RoutesAggregateUnguarded ==
    [i \in 1..(Len(SpecificRoutes) + Len(ParameterizedRoutes)) |->
        LET r == (SpecificRoutes \o ParameterizedRoutes)[i]
        IN  IF r.handler = "triggerJobAggregation"
            THEN [r EXCEPT !.middleware = <<>>]
            ELSE r]

\* the router: its routes in registration order
Routes == SpecificRoutes \o ParameterizedRoutes

\* a path segment of a route pattern that is a parameter
IsParam(seg) == seg = ":id"

IsLiteralPath(path) == \A i \in 1..Len(path) : ~IsParam(path[i])

\* Express's matching of a request against a route: same method, same
\* number of segments, each segment equal unless the pattern has a parameter
Matches(route, req) ==
    /\ route.method = req.method
    /\ Len(route.path) = Len(req.path)
    /\ \A i \in 1..Len(route.path) :
          IsParam(route.path[i]) \/ route.path[i] = req.path[i]

\* the router walks its routes in registration order: the first that matches
\* handles the request (no handler of this router calls next() once it has
\* answered); 0 when none matches
Dispatch(routes, req) ==
    IF \E i \in 1..Len(routes) : Matches(routes[i], req)
    THEN CHOOSE i \in 1..Len(routes) :
            /\ Matches(routes[i], req)
            /\ \A k \in 1..(i - 1) : ~Matches(routes[k], req)
    ELSE 0

\* the requests of the model: every literal path of the router, and the
\* parameterized paths with a job id in place of :id
RequestPaths ==
    {Routes[i].path : i \in {k \in 1..Len(Routes) : IsLiteralPath(Routes[k].path)}}
    \cup {<<"6501">>, <<"6501", "bookmark">>, <<"6501", "analyze-visa">>,
          <<"6501", "match-score">>, <<"6501", "match-breakdown">>,
          <<"6501", "similar">>, <<"6501", "unknown">>}

Requests == [method : {"GET", "POST"}, path : RequestPaths]

NoRequest == [method |-> "", path |-> <<>>]

\* a request arrives and the router picks its route
Receive ==
    /\ stage \in {"idle", "responded"}
    /\ \E req \in Requests :
          /\ request' = req
          /\ routeIdx' = Dispatch(Routes, req)
          /\ IF Dispatch(Routes, req) = 0
             THEN stage' = "responded" /\ status' = 404
             ELSE /\ status' = 0
                  /\ stage' = IF Routes[Dispatch(Routes, req)].middleware = <<>>
                              THEN "handler" ELSE "middleware"
    /\ accepted' = FALSE
    /\ handlerRan' = ""
    /\ UNCHANGED <<isRunning, manualRefreshes>>
    /\ UNCHANGED <<dbVars, envVars, otherVars, clockVars, aggVars, userVars>>

\* authenticateToken accepts the request: it calls next()
AuthAccepts ==
    /\ stage = "middleware"
    /\ accepted' = TRUE
    /\ stage' = "handler"
    /\ UNCHANGED <<request, routeIdx, handlerRan, status, isRunning,
                   manualRefreshes>>
    /\ UNCHANGED <<dbVars, envVars, otherVars, clockVars, aggVars, userVars>>

\* authenticateToken rejects the request: it answers itself
AuthRejects ==
    /\ stage = "middleware"
    /\ status' = 401
    /\ stage' = "responded"
    /\ UNCHANGED <<request, routeIdx, accepted, handlerRan, isRunning,
                   manualRefreshes>>
    /\ UNCHANGED <<dbVars, envVars, otherVars, clockVars, aggVars, userVars>>

\* dailyJobRefreshService.isRefreshRunning()
isRefreshRunning == isRunning

\* a handler that starts the refresh without asking whether one is running
triggerManualRefreshUnchecked ==
    /\ isRunning' = TRUE
    /\ manualRefreshes' = manualRefreshes + 1
    /\ status' = 200

\* jobController.triggerManualRefresh: 409 while a refresh is running, else
\* the refresh is started without awaiting it and the answer is 200
triggerManualRefresh ==
    IF isRefreshRunning
    THEN /\ status' = 409
         /\ UNCHANGED <<isRunning, manualRefreshes>>
    ELSE /\ isRunning' = TRUE
         /\ manualRefreshes' = manualRefreshes + 1
         /\ status' = 200

\* the controller handler of the matched route runs
RunHandler ==
    /\ stage = "handler"
    /\ handlerRan' = Routes[routeIdx].handler
    /\ stage' = "responded"
    /\ IF Routes[routeIdx].handler = "triggerManualRefresh"
       THEN triggerManualRefresh
       ELSE /\ status' = 200
            /\ UNCHANGED <<isRunning, manualRefreshes>>
    /\ UNCHANGED <<request, routeIdx, accepted>>
    /\ UNCHANGED <<dbVars, envVars, otherVars, clockVars, aggVars, userVars>>

\* the refresh started by the endpoint ends
ManualRefreshEnds ==
    /\ manualRefreshes > 0
    /\ manualRefreshes' = manualRefreshes - 1
    /\ isRunning' = FALSE
    /\ UNCHANGED <<request, stage, routeIdx, accepted, handlerRan, status>>
    /\ UNCHANGED <<dbVars, envVars, otherVars, clockVars, aggVars, userVars>>

\* the cron of dailyJobRefreshService starts the scheduled refresh
ScheduledRefreshStarts ==
    /\ ~isRunning
    /\ isRunning' = TRUE
    /\ UNCHANGED <<request, stage, routeIdx, accepted, handlerRan, status,
                   manualRefreshes>>
    /\ UNCHANGED <<dbVars, envVars, otherVars, clockVars, aggVars, userVars>>

\* the scheduled refresh ends
ScheduledRefreshEnds ==
    /\ isRunning
    /\ manualRefreshes = 0
    /\ isRunning' = FALSE
    /\ UNCHANGED <<request, stage, routeIdx, accepted, handlerRan, status,
                   manualRefreshes>>
    /\ UNCHANGED <<dbVars, envVars, otherVars, clockVars, aggVars, userVars>>

(***************************************************************************)
(* SavedJobsPage and jobService (frontend).                                *)
(***************************************************************************)
\* the user of the page
PageUser == "u1"

\* jobController.getBookmarkedJobs as jobService.getBookmarkedJobs reads it:
\* the _id strings of the populated bookmarkedJobs of the user
getBookmarkedJobs(userId) ==
    [i \in 1..Len(bookmarkedJobs[userId]) |->
        ObjectIdToString(bookmarkedJobs[userId][i])]

\* SavedJobsPage.fetchSavedJobs
fetchSavedJobs ==
    /\ savedJobs' = getBookmarkedJobs(PageUser)
    /\ UNCHANGED <<toast, shutdownVars, cacheVars, linkedInVars, raceVars>>
    /\ UNCHANGED <<dbVars, envVars, clockVars, aggVars, userVars, httpVars>>

\* the request jobService.unbookmarkJob sends: DELETE /api/jobs/<jobId>/bookmark
\* ("6501" stands for the id segment, as in RequestPaths)
UnbookmarkRequest(jobId) ==
    [method |-> "DELETE", path |-> <<"6501", "bookmark">>]

\* prev.filter((job) => job._id !== jobId)
DropFromPage(list, jobId) == SelectSeq(list, LAMBDA id : id # jobId)

\* SavedJobsPage.handleRemoveBookmark(jobId): jobService.unbookmarkJob sends
\* its request; the job router answers it through the route that matches, or
\* the application's 404 handler does when none matches; unbookmarkJob throws
\* on any answer that is not a success, and the page drops the job only when
\* it did not throw
handleRemoveBookmark(jobId) ==
    LET idx == Dispatch(Routes, UnbookmarkRequest(jobId))
    IN  IF idx = 0
        THEN /\ toast' = "Failed to remove job"
             /\ UNCHANGED <<savedJobs, userVars, shutdownVars, cacheVars,
                            linkedInVars, raceVars>>
             /\ UNCHANGED <<dbVars, envVars, clockVars, aggVars, httpVars>>
        ELSE \* the route's handler answers; with the toggle of bookmarkJob
             \* the job, which the page got from the user's list, is removed
             LET t == Toggle(bookmarkedJobs[PageUser], jobId)
             IN  /\ Routes[idx].handler = "bookmarkJob"
                 /\ bookmarkedJobs' =
                       [bookmarkedJobs EXCEPT ![PageUser] = t.list]
                 /\ response' =
                       Respond("bookmarkJob", PageUser, 200,
                               [bookmarked |-> t.action = "added",
                                totalBookmarks |-> Len(t.list),
                                removedCount |-> 0])
                 /\ savedJobs' = DropFromPage(savedJobs, jobId)
                 /\ toast' = "Job removed from saved"
                 /\ UNCHANGED <<shutdownVars, cacheVars, linkedInVars, raceVars>>
                 /\ UNCHANGED <<dbVars, envVars, clockVars, aggVars, httpVars>>

\* the user presses the remove button of a job the page displays
RemoveBookmarkClick == \E i \in 1..Len(savedJobs) :
    handleRemoveBookmark(savedJobs[i])

(***************************************************************************)
(* Graceful shutdown (server.ts).                                          *)
(***************************************************************************)
\* setTimeout(..., 30000), in seconds
ForceShutdownAfter == 30

\* exitCode while the process runs
NotExited == -1

Signals == {"SIGTERM", "SIGINT"}

\* a shutdown handler that sets no force-shutdown timer
gracefulShutdownWithoutTimer ==
    /\ exitCode = NotExited
    /\ \E sig \in Signals : signal' = sig
    /\ UNCHANGED <<timerArmed, elapsed>>
    /\ UNCHANGED <<serverClosed, cronRunning, shutdownLog, exitCode>>
    /\ UNCHANGED <<dbVars, envVars, clockVars, aggVars, userVars, httpVars,
                   pageVars, cacheVars, linkedInVars, raceVars>>

\* process.on(signal, () => gracefulShutdown(signal)): server.close(callback)
\* makes the server stop accepting connections, and the force-shutdown timer
\* is set. A further signal calls it again: its timer is later than the
\* first, which is the one that counts
gracefulShutdown ==
    /\ exitCode = NotExited
    /\ \E sig \in Signals : signal' = sig
    /\ timerArmed' = TRUE
    /\ elapsed' = IF timerArmed THEN elapsed ELSE 0
    /\ UNCHANGED <<serverClosed, cronRunning, shutdownLog, exitCode>>
    /\ UNCHANGED <<dbVars, envVars, clockVars, aggVars, userVars, httpVars,
                   pageVars, cacheVars, linkedInVars, raceVars>>

\* dailyJobRefreshService.stop(): whether the cron is scheduled afterwards
stop(running) == FALSE

\* the callback of server.close: the server has closed, the cron jobs are
\* stopped, process.exit(0)
closeCallback ==
    /\ serverClosed' = TRUE
    /\ cronRunning' = stop(cronRunning)
    /\ shutdownLog' =
          shutdownLog \o <<"HTTP server closed", "Cron jobs stopped">>
    /\ exitCode' = 0

\* the HTTP server emits 'close' once it accepts no connections and the
\* last open connection has ended: no request is in flight then
ServerCloses ==
    /\ exitCode = NotExited
    /\ signal # ""
    /\ stage \in {"idle", "responded"}
    /\ closeCallback
    /\ UNCHANGED <<signal, timerArmed, elapsed>>
    /\ UNCHANGED <<dbVars, envVars, clockVars, aggVars, userVars, httpVars,
                   pageVars, cacheVars, linkedInVars, raceVars>>

\* time passes for the force-shutdown timer
TimerTick ==
    /\ exitCode = NotExited
    /\ timerArmed
    /\ elapsed < ForceShutdownAfter
    /\ elapsed' = elapsed + SecondsPerTick
    /\ UNCHANGED <<signal, timerArmed, serverClosed, cronRunning, shutdownLog,
                   exitCode>>
    /\ UNCHANGED <<dbVars, envVars, clockVars, aggVars, userVars, httpVars,
                   pageVars, cacheVars, linkedInVars, raceVars>>

\* the force-shutdown timer fires: process.exit(1)
ForceShutdown ==
    /\ exitCode = NotExited
    /\ timerArmed
    /\ elapsed >= ForceShutdownAfter
    /\ exitCode' = 1
    /\ UNCHANGED <<signal, timerArmed, elapsed, serverClosed, cronRunning,
                   shutdownLog>>
    /\ UNCHANGED <<dbVars, envVars, clockVars, aggVars, userVars, httpVars,
                   pageVars, cacheVars, linkedInVars, raceVars>>

(***************************************************************************)
(* The Handshake cache (handshakeAPI).                                     *)
(***************************************************************************)
\* const CACHE_DURATION = 60 * 60 * 1000, in units of MsPerUnit
CACHE_DURATION == (60 * 60 * 1000) \div MsPerUnit

\* axios timeout of the API request, in milliseconds
RequestTimeout == 10000

\* let cache = { data: null, timestamp: null }: data is <<>> for null and
\* <<jobs>> for an array, timestamp is 0 for null
EmptyCache == [data |-> <<>>, timestamp |-> 0]

\* the concurrent callers of fetchHandshakeJobs (overlapping aggregateJobs
\* runs, getUniversityJobs requests)
Callers == {"c1", "c2"}

\* what the Handshake API answers in this part: no job, or one well-formed job
CacheResponses ==
    {<<>>} \cup
    {<<j>> : j \in {h \in HandshakeApiJobs :
                       h.description = "text" /\ h.created_at = <<0>>}}

NoFetch == [at |-> 0, jobs |-> <<>>]

NoCall == [n |-> 0, at |-> 0, hit |-> FALSE, jobs |-> <<>>]

\* a cache check that still takes the cache one hour after the fetch
CacheIsFreshInclusive(c, t) ==
    /\ c.data # <<>>
    /\ c.timestamp # 0
    /\ t - c.timestamp <= CACHE_DURATION

\* if (cache.data && cache.timestamp && now - cache.timestamp < CACHE_DURATION)
CacheIsFresh(c, t) ==
    /\ c.data # <<>>
    /\ c.timestamp # 0
    /\ t - c.timestamp < CACHE_DURATION

\* fetchHandshakeJobs up to its await, with the API key set: the cached jobs
\* are returned, or the API request is sent
HandshakeCall(caller) ==
    /\ hasHandshakeKey
    /\ inFlight[caller] = 0
    /\ lastCall.n < MaxCalls
    /\ IF CacheIsFresh(cache, clock)
       THEN /\ lastCall' = [n |-> lastCall.n + 1, at |-> clock, hit |-> TRUE,
                            jobs |-> cache.data[1]]
            /\ UNCHANGED inFlight
       ELSE /\ lastCall' = [n |-> lastCall.n + 1, at |-> clock, hit |-> FALSE,
                            jobs |-> <<>>]
            /\ inFlight' = [inFlight EXCEPT ![caller] = clock]
    /\ UNCHANGED <<clock, cache, advances, lastFetch>>
    /\ UNCHANGED <<dbVars, envVars, clockVars, aggVars, userVars, httpVars,
                   pageVars, shutdownVars, linkedInVars, raceVars>>

\* the API answers: the transformed jobs are cached with the `now` the call
\* took before it sent the request, and returned
HandshakeResponse(caller) ==
    /\ inFlight[caller] # 0
    /\ \E data \in CacheResponses :
          LET transformedJobs == transformHandshakeJobs(data, now)
          IN  /\ cache' = [data |-> <<transformedJobs>>,
                           timestamp |-> inFlight[caller]]
              /\ lastFetch' = [at |-> inFlight[caller], jobs |-> transformedJobs]
    /\ inFlight' = [inFlight EXCEPT ![caller] = 0]
    /\ UNCHANGED <<clock, advances, lastCall>>
    /\ UNCHANGED <<dbVars, envVars, clockVars, aggVars, userVars, httpVars,
                   pageVars, shutdownVars, linkedInVars, raceVars>>

\* the request fails or times out: the mock jobs are returned, the cache is
\* left as it is
HandshakeError(caller) ==
    /\ inFlight[caller] # 0
    /\ inFlight' = [inFlight EXCEPT ![caller] = 0]
    /\ UNCHANGED <<clock, cache, advances, lastFetch, lastCall>>
    /\ UNCHANGED <<dbVars, envVars, clockVars, aggVars, userVars, httpVars,
                   pageVars, shutdownVars, linkedInVars, raceVars>>

\* the steps the clock is advanced by: one unit, and up to the hour
ClockSteps == {1, CACHE_DURATION - 2, CACHE_DURATION - 1, CACHE_DURATION}

\* time passes; a request in flight is answered or fails before its timeout
Advance ==
    /\ advances < MaxAdvances
    /\ \E d \in ClockSteps :
          /\ \A c \in Callers :
                inFlight[c] # 0 =>
                   (clock + d - inFlight[c]) * MsPerUnit < RequestTimeout
          /\ clock' = clock + d
    /\ advances' = advances + 1
    /\ UNCHANGED <<cache, inFlight, lastFetch, lastCall>>
    /\ UNCHANGED <<dbVars, envVars, clockVars, aggVars, userVars, httpVars,
                   pageVars, shutdownVars, linkedInVars, raceVars>>

(***************************************************************************)
(* fetchLinkedInMultiple called on its own.                                *)
(***************************************************************************)
\* the next location request comes back: with an error, or with an array
LinkedInLocationResponds ==
    /\ hasRapidApiKey
    /\ liResult = <<>>
    /\ Len(liResponses) < NumLocations
    /\ \E r \in LinkedInResponses(Min(MaxPerLocation,
                                      MaxLinkedInJobs - TotalData(liResponses))) :
          liResponses' = Append(liResponses, r)
    /\ UNCHANGED liResult
    /\ UNCHANGED <<dbVars, envVars, clockVars, aggVars, userVars, httpVars,
                   pageVars, shutdownVars, cacheVars, raceVars>>

\* the call returns
LinkedInReturns ==
    /\ liResult = <<>>
    /\ Len(liResponses) = NumLocations
    /\ liResult' = <<fetchLinkedInMultiple(hasRapidApiKey, liResponses, now)>>
    /\ UNCHANGED liResponses
    /\ UNCHANGED <<dbVars, envVars, clockVars, aggVars, userVars, httpVars,
                   pageVars, shutdownVars, cacheVars, raceVars>>

\* the next call begins
LinkedInCallAgain ==
    /\ liResult # <<>>
    /\ liResponses' = <<>>
    /\ liResult' = <<>>
    /\ UNCHANGED <<dbVars, envVars, clockVars, aggVars, userVars, httpVars,
                   pageVars, shutdownVars, cacheVars, raceVars>>

(***************************************************************************)
(* POST /api/jobs/:id/analyze-visa.                                        *)
(***************************************************************************)
\* answers of visaDetectionService.detectVisaSponsorship: no sponsorship
\* found, H-1B only, all three
VisaAnalyses ==
    {NoVisa,
     [h1b |-> TRUE, opt |-> FALSE, stemOpt |-> FALSE],
     [h1b |-> TRUE, opt |-> TRUE, stemOpt |-> TRUE]}

\* analyzeJobVisa: 404 without the job; with ?update=true the three flags
\* are set on the document and job.save() validates it, an error answering
\* 500
analyzeJobVisa(id, update, visaAnalysis) ==
    /\ LET found == JobFindById(jobs, id)
       IN  IF found = {}
           THEN status' = 404 /\ jobs' = jobs
           ELSE LET job == CHOOSE d \in found : TRUE
                IN  IF update /\ ~Validates(job)
                    THEN status' = 500 /\ jobs' = jobs
                    ELSE /\ jobs' =
                              IF update
                              THEN (jobs \ {job}) \cup
                                     {[job EXCEPT !.visaSponsorship =
                                                      visaAnalysis]}
                              ELSE jobs
                         /\ status' = 200
    /\ UNCHANGED <<nextId, envVars, clockVars, aggVars, userVars, otherVars>>
    /\ UNCHANGED <<request, stage, routeIdx, accepted, handlerRan, isRunning,
                   manualRefreshes>>

(***************************************************************************)
(* Overlapping aggregateJobs runs: saveJob one await at a time.            *)
(***************************************************************************)
\* the runs that overlap (two POST /aggregate requests, or one during a
\* scheduled refresh)
Runs == {"r1", "r2"}

\* what the usajobs service returns to a run in this part
RaceJobs == {j \in ServiceJobs("usajobs") : j.postedDate = <<0>>}

\* a run's fetch of usajobs returns
RunFetches(r) ==
    /\ runPc[r] = "idle"
    /\ \E fetchedJobs \in ListsUpTo(RaceJobs, MaxRaceJobs) :
          /\ runFetched' = [runFetched EXCEPT ![r] = fetchedJobs]
          /\ runQueue' = [runQueue EXCEPT ![r] = fetchedJobs]
          /\ runPc' = [runPc EXCEPT ![r] =
                          IF fetchedJobs = <<>> THEN "done" ELSE "find"]
    /\ UNCHANGED <<runFound, runProcessed, runErrors>>
    /\ UNCHANGED <<dbVars, envVars, clockVars, aggVars, userVars, httpVars,
                   pageVars, shutdownVars, cacheVars, linkedInVars>>

\* saveJob up to its first await: Job.findOne({source, sourceJobId})
RunFindOne(r) ==
    /\ runPc[r] = "find"
    /\ LET jobDoc == saveJobDoc(Head(runQueue[r]), now)
           existing == Matching(jobs, jobDoc.source, jobDoc.sourceJobId)
       IN  runFound' = [runFound EXCEPT ![r] =
                           IF existing = {} THEN 0
                           ELSE (CHOOSE d \in existing : TRUE)._id]
    /\ runPc' = [runPc EXCEPT ![r] = "write"]
    /\ UNCHANGED <<runQueue, runFetched, runProcessed, runErrors>>
    /\ UNCHANGED <<dbVars, envVars, clockVars, aggVars, userVars, httpVars,
                   pageVars, shutdownVars, cacheVars, linkedInVars>>

\* saveJob after findOne: findByIdAndUpdate of the document found, else
\* Job.create; an error of either is caught and logged by saveJob, and the
\* run goes on with its next job
RunWrites(r) ==
    /\ runPc[r] = "write"
    /\ LET jobDoc == saveJobDoc(Head(runQueue[r]), now)
           w == IF runFound[r] # 0
                THEN JobFindByIdAndUpdate(jobs, nextId, runFound[r], jobDoc)
                ELSE JobCreate(jobs, nextId, jobDoc)
       IN  /\ jobs' = w.jobs
           /\ nextId' = w.nextId
           /\ runErrors' = [runErrors EXCEPT ![r] = @ + (IF w.ok THEN 0 ELSE 1)]
    /\ runProcessed' = [runProcessed EXCEPT ![r] = @ + 1]
    /\ runQueue' = [runQueue EXCEPT ![r] = Tail(@)]
    /\ runPc' = [runPc EXCEPT ![r] =
                    IF Tail(runQueue[r]) = <<>> THEN "done" ELSE "find"]
    /\ UNCHANGED <<runFound, runFetched>>
    /\ UNCHANGED <<envVars, clockVars, aggVars, userVars, httpVars,
                   pageVars, shutdownVars, cacheVars, linkedInVars>>

(***************************************************************************)
(* Specifications.                                                         *)
(***************************************************************************)
Init ==
    /\ jobs = {}
    /\ nextId = 1
    /\ hasHandshakeKey \in BOOLEAN
    /\ hasRapidApiKey \in BOOLEAN
    /\ now = 0
    /\ modifiedCount = 0
    /\ viewed = 0
    /\ pc = "idle"
    /\ srcIdx = 1
    /\ pending = <<>>
    /\ totalSaved = 0
    /\ apiJobs = 0
    /\ attempted = {}
    /\ threw = {}
    /\ returned = ZeroPerSource
    /\ passed = ZeroPerSource
    /\ written = 0
    /\ bookmarkedJobs = [u \in Users |-> <<>>]
    /\ response = Respond("", "", 0, NoData)
    /\ request = NoRequest
    /\ stage = "idle"
    /\ routeIdx = 0
    /\ accepted = FALSE
    /\ handlerRan = ""
    /\ status = 0
    /\ isRunning = FALSE
    /\ manualRefreshes = 0
    /\ savedJobs = <<>>
    /\ toast = ""
    /\ signal = ""
    /\ timerArmed = FALSE
    /\ elapsed = 0
    /\ serverClosed = FALSE
    /\ cronRunning = TRUE
    /\ shutdownLog = <<>>
    /\ exitCode = NotExited
    /\ clock = 1
    /\ cache = EmptyCache
    /\ inFlight = [c \in Callers |-> 0]
    /\ advances = 0
    /\ lastFetch = NoFetch
    /\ lastCall = NoCall
    /\ liResponses = <<>>
    /\ liResult = <<>>
    /\ runPc = [r \in Runs |-> "idle"]
    /\ runQueue = [r \in Runs |-> <<>>]
    /\ runFound = [r \in Runs |-> 0]
    /\ runFetched = [r \in Runs |-> <<>>]
    /\ runProcessed = [r \in Runs |-> 0]
    /\ runErrors = [r \in Runs |-> 0]

\* the aggregator alone: runs of aggregateJobs over every outcome of the
\* fetches
Next ==
    \/ StartRun
    \/ FetchServiceReturns(Room)
    \/ FetchServiceThrows
    \/ FetchHandshakeMock
    \/ FetchHandshakeApi(Room)
    \/ FetchLinkedInMock
    \/ FetchLinkedInApi(Room)
    \/ SaveStep
    \/ Return

Spec == Init /\ [][Next]_vars

\* the Job collection over time, with both API keys configured and the
\* APIs answering: runs of aggregateJobs, cleanupOldJobs and the clock
InitDb == Init /\ hasHandshakeKey /\ hasRapidApiKey

NextDb ==
    \/ StartRun
    \/ FetchServiceReturns(Room)
    \/ FetchHandshakeApi(Room)
    \/ FetchLinkedInApi(Room)
    \/ SaveStep
    \/ Return
    \/ cleanupOldJobs
    \/ Tick

SpecDb == InitDb /\ [][NextDb]_vars

\* upserts of documents that are viewed and bookmarked: runs of
\* aggregateJobs, view increments, and one user toggling bookmarks
NextUpsert ==
    \/ StartRun
    \/ FetchServiceReturns(Room)
    \/ FetchHandshakeApi(Room)
    \/ FetchLinkedInApi(Room)
    \/ SaveStep
    \/ Return
    \/ incrementViews
    \/ \E oid \in 1..MaxRequestedId : bookmarkJob("u1", ObjectIdToString(oid))

SpecUpsert == InitDb /\ [][NextUpsert]_vars

\* the bookmark handlers, over the jobs a run without a RapidAPI key leaves
\* (the LinkedIn mock list) while the other sources return nothing
InitBookmarks == Init /\ hasHandshakeKey /\ ~hasRapidApiKey

NextBookmarks ==
    \/ StartRun
    \/ FetchServiceReturns(0)
    \/ FetchHandshakeApi(0)
    \/ FetchLinkedInMock
    \/ SaveStep
    \/ Return
    \/ BookmarkRequest
    \/ BulkRemoveRequest

SpecBookmarks == InitBookmarks /\ [][NextBookmarks]_vars

\* the saved-jobs page of one user over the bookmark handlers
NextSaved ==
    \/ StartRun
    \/ FetchServiceReturns(0)
    \/ FetchHandshakeApi(0)
    \/ FetchLinkedInMock
    \/ SaveStep
    \/ Return
    \/ \E jobId \in JobIdStrings : bookmarkJob(PageUser, jobId)
    \/ fetchSavedJobs
    \/ RemoveBookmarkClick

SpecSaved == InitBookmarks /\ [][NextSaved]_vars

\* the router and the refresh endpoint
NextHttp ==
    \/ Receive
    \/ AuthAccepts
    \/ AuthRejects
    \/ RunHandler
    \/ ManualRefreshEnds
    \/ ScheduledRefreshStarts
    \/ ScheduledRefreshEnds

SpecHttp == Init /\ [][NextHttp]_vars

\* fetchHandshakeJobs with the API key set, called by two callers whose calls
\* may overlap
NextCache ==
    \/ \E caller \in Callers : HandshakeCall(caller)
    \/ \E caller \in Callers : HandshakeResponse(caller)
    \/ \E caller \in Callers : HandshakeError(caller)
    \/ Advance

SpecCache == InitDb /\ [][NextCache]_vars

\* calls of fetchLinkedInMultiple with the RapidAPI key set
NextLinkedIn ==
    \/ LinkedInLocationResponds
    \/ LinkedInReturns
    \/ LinkedInCallAgain

SpecLinkedIn == InitDb /\ [][NextLinkedIn]_vars

\* aggregation runs and visa analyses of the stored jobs
NextVisa ==
    \/ StartRun
    \/ FetchServiceReturns(Room)
    \/ FetchHandshakeApi(Room)
    \/ FetchLinkedInApi(Room)
    \/ SaveStep
    \/ Return
    \/ \E id \in 1..MaxRequestedId, update \in BOOLEAN,
          visaAnalysis \in VisaAnalyses :
          analyzeJobVisa(id, update, visaAnalysis)

SpecVisa == InitDb /\ [][NextVisa]_vars

\* two aggregateJobs runs whose saves interleave at their awaits, on a
\* collection that has none of their jobs yet
NextRace ==
    \/ \E r \in Runs : RunFetches(r)
    \/ \E r \in Runs : RunFindOne(r)
    \/ \E r \in Runs : RunWrites(r)

SpecRace == InitDb /\ [][NextRace]_vars

\* the server from start to exit: it serves the requests of the job router
\* while the process runs; timers of a running process fire
NextShutdown ==
    \/ exitCode = NotExited /\ NextHttp
    \/ gracefulShutdown
    \/ ServerCloses
    \/ TimerTick
    \/ ForceShutdown

SpecShutdown ==
    /\ Init
    /\ [][NextShutdown]_vars
    /\ WF_vars(TimerTick)
    /\ WF_vars(ForceShutdown)

(***************************************************************************)
(* Properties.                                                             *)
(***************************************************************************)

\* C1: after any number of sequential aggregateJobs runs the Job collection
\* holds at most one document for each (source, sourceJobId) pair.
C1_OneDocumentPerKey ==
    \A d \in jobs : \A e \in jobs :
        (d.source = e.source /\ d.sourceJobId = e.sourceJobId) => d = e

\* a run in which one source returned the same id twice has ended: two
\* documents were written and the collection holds one
C1_Witness ==
    /\ pc = "done"
    /\ \E i \in 1..NumSources : returned[i] = 2 /\ passed[i] = 2
    /\ written = 2
    /\ Cardinality(jobs) = 1

\* C2: when the fetch of a source throws, the run still fetches every other
\* source and passes each job they returned to the save operation.
C2_ErrorIsolation ==
    pc = "done" =>
        \A i \in 1..NumSources :
            /\ sourceOrder[i] \in attempted
            /\ sourceOrder[i] \notin threw => passed[i] = returned[i]

\* a run has ended in which a fetch threw and a later source's jobs were
\* passed to its save
C2_Witness ==
    /\ pc = "done"
    /\ sourceOrder[1] \in threw
    /\ \E i \in 2..NumSources : returned[i] > 0 /\ passed[i] = returned[i]

\* C3: the number aggregateJobs returns equals the number of job records
\* the run created or updated.
C3_ReturnCountsWrites ==
    pc = "done" => totalSaved = written

\* the job ids a bookmarkedJobs array holds
Bookmarked(list) == {list[i] : i \in 1..Len(list)}

\* C4: a save of aggregateJobs keeps every existing document with its _id,
\* its key and its views and applications counters; when it writes without
\* creating, no document is added; it leaves every bookmark list alone, so
\* each bookmark still references the document it referenced.
C4_UpsertInPlace ==
    [][SaveStep =>
        /\ \A d \in jobs : \E e \in jobs' :
              /\ e._id = d._id
              /\ e.source = d.source
              /\ e.sourceJobId = d.sourceJobId
              /\ e.views = d.views
              /\ e.applications = d.applications
        /\ (written' = written + 1 /\ nextId' = nextId) =>
              {e._id : e \in jobs'} = {d._id : d \in jobs}
        /\ bookmarkedJobs' = bookmarkedJobs
        /\ \A u \in Users : Bookmarked(bookmarkedJobs'[u]) \cap {d._id : d \in jobs}
                                \subseteq {e._id : e \in jobs'}]_vars

\* a run has ended whose only write updated the one document of the
\* collection (an empty description cannot be created, only written by an
\* update); the document has been viewed and is bookmarked
C4_Witness ==
    /\ pc = "done"
    /\ written = 1
    /\ nextId = 2
    /\ \E d \in jobs :
          /\ d.description = ""
          /\ d.views > 0
          /\ d._id \in Bookmarked(bookmarkedJobs["u1"])

C6_BookmarkToggles ==
    [][\A userId \in Users : \A jobId \in JobIdStrings :
        (bookmarkJob(userId, jobId) /\ response'.status = 200) =>
            LET before == ObjectId(jobId) \in Bookmarked(bookmarkedJobs[userId])
                after == ObjectId(jobId) \in Bookmarked(bookmarkedJobs'[userId])
            IN  /\ after = ~before
                /\ response'.bookmarked = after
                /\ response'.totalBookmarks = Len(bookmarkedJobs'[userId])]_vars

\* C7: a bookmark or bulk-remove request of one user leaves the lists of
\* all other users and every Job document as they were, and a request
\* answered with 401 or 404 leaves every list as it was.  (Only the two
\* handlers write bookmarkedJobs and response, so the steps that change
\* either are theirs.)
C7_BookmarksUserSpecific ==
    [][(response' # response \/ bookmarkedJobs' # bookmarkedJobs) =>
        /\ response'.handler \in {"bookmarkJob", "bulkRemoveSavedJobs"}
        /\ \A v \in Users \ {response'.to} :
              bookmarkedJobs'[v] = bookmarkedJobs[v]
        /\ jobs' = jobs
        /\ response'.status \in {401, 404} =>
              bookmarkedJobs' = bookmarkedJobs]_vars

\* a bulk removal has emptied the list of one user while the other user
\* still has the same job bookmarked
C7_Witness ==
    /\ response.handler = "bulkRemoveSavedJobs"
    /\ response.status = 200
    /\ response.removedCount = 1
    /\ bookmarkedJobs["u1"] = <<>>
    /\ bookmarkedJobs["u2"] = <<1>>

\* the indices of the routes whose path has no parameter
LiteralRoutes == {i \in 1..Len(Routes) : IsLiteralPath(Routes[i].path)}

\* C8: every literal route is registered before every parameterized route,
\* and a request for a literal route is dispatched to that route and its
\* handler, never to a parameterized one.
C8_LiteralRoutesWin ==
    /\ \A i \in LiteralRoutes : \A k \in (1..Len(Routes)) \ LiteralRoutes : i < k
    /\ (/\ stage # "idle"
        /\ \E i \in LiteralRoutes :
              Routes[i].method = request.method /\ Routes[i].path = request.path)
       => /\ routeIdx \in LiteralRoutes
          /\ Routes[routeIdx].method = request.method
          /\ Routes[routeIdx].path = request.path
          /\ handlerRan \in {"", Routes[routeIdx].handler}

\* GET /search has been answered by searchJobs
C8_Witness ==
    /\ stage = "responded"
    /\ request = [method |-> "GET", path |-> <<"search">>]
    /\ handlerRan = "searchJobs"

\* C9: the controller handler of a route documented as Private has run only
\* if authenticateToken accepted the request.
C9_PrivateNeedsAuth ==
    (handlerRan # "" /\ Routes[routeIdx].access = "Private") => accepted

\* the handler of the Private route POST /aggregate has run, after
\* authenticateToken accepted the request
C9_Witness ==
    /\ stage = "responded"
    /\ handlerRan = "triggerJobAggregation"
    /\ Routes[routeIdx].access = "Private"
    /\ accepted

C11_UnbookmarkRemoves ==
    [][\A i \in 1..Len(savedJobs) :
         handleRemoveBookmark(savedJobs[i])
         => /\ ObjectId(savedJobs[i]) \notin Bookmarked(bookmarkedJobs'[PageUser])
            /\ \A k \in 1..Len(savedJobs') : savedJobs'[k] # savedJobs[i]]_vars

RECURSIVE Received(_, _)
Received(responses, today) ==
    IF responses = <<>> THEN <<>>
    ELSE (IF Head(responses).error THEN <<>>
          ELSE transformLinkedInJobs(Head(responses).data, today))
         \o Received(Tail(responses), today)

C15_SourcesInOrder ==
    [][(attempted' # attempted /\ attempted' # {})
       => LET order == <<"usajobs", "remoteok", "arbeitnow", "jooble",
                         "careerjet", "Handshake", "LinkedIn">>
              n == Cardinality(attempted)
          IN  /\ pending = <<>>
              /\ n < Len(order)
              /\ attempted = {order[k] : k \in 1..n}
              /\ attempted' = attempted \cup {order[n + 1]}
              /\ \A k \in 1..n : passed[k] = returned[k]]_vars

\* a run has ended in which jooble and Handshake each returned a job and
\* LinkedIn was fetched after both were saved
C15_Witness ==
    /\ pc = "done"
    /\ Cardinality(attempted) = NumSources
    /\ returned[4] = 1 /\ passed[4] = 1
    /\ returned[6] = 1 /\ passed[6] = 1
    /\ totalSaved = 2

\* the sourceJobIds a run has fetched, and those it fetched with a job that
\* passes the schema validation
FetchedIds(r) == {runFetched[r][i].id : i \in 1..Len(runFetched[r])}

StorableIds(r) ==
    {runFetched[r][i].id :
        i \in {k \in 1..Len(runFetched[r]) :
                 Validates(saveJobDoc(runFetched[r][k], now))}}

C17_DeactivatedStaysInactive ==
    [][\A d \in jobs :
          (~d.isActive /\ d.postedDate < now - TwentyOneDays) =>
             \A e \in jobs' :
                (e._id = d._id /\ e.postedDate = d.postedDate) => ~e.isActive]_vars

\* C18: a save of an aggregateJobs run (the source records carry no visa
\* information) leaves the visa sponsorship flags of every stored job as
\* they were, in particular those analyzeJobVisa wrote with update=true.
C18_VisaFlagsKept ==
    [][pending' # pending
       => \A d \in jobs : \A e \in jobs' :
             e._id = d._id => e.visaSponsorship = d.visaSponsorship]_vars

====
